---- MODULE Spec2Model ----
(***************************************************************************)
(* Metropolis Monte Carlo simulation of a 2D lattice of electric dipoles   *)
(* (class DipoleSim of montecarlo/layers_1/montecarlo3.py).                 *)
(*                                                                         *)
(* Arithmetic.  The program computes in doubles; the model computes in     *)
(* exact real arithmetic.  With a lattice spacing and a dipole strength    *)
(* that are even integers, every coordinate, every dipole component and    *)
(* every dot product of the program is a number a + b*sqrt(3) with integer *)
(* a and b, written <<a, b>>.  Inverse powers of a distance are kept       *)
(* symbolic: an interaction energy is a formal sum of c_d * d^(-5/2) over  *)
(* the squared distances d, held as the function d |-> c_d.  Whether such  *)
(* a sum is the real number 0 is decided exactly (IsZero); the sign of a   *)
(* nonzero sum is read off an integer approximation whose error bound the  *)
(* invariant SignDecided shows to be exceeded in every reachable state.    *)
(* Orientation counts are 3 and divisors of 12, whose cosines and sines    *)
(* are numbers a + b*sqrt(3) with half-integer a and b.                    *)
(*                                                                         *)
(* Randomness.  A draw is an input of the action that takes it; the state  *)
(* of a generator is the number of draws taken from it.                    *)
(***************************************************************************)
EXTENDS Integers, Sequences, FiniteSets, TLC

(* ------------------------------------------------------------------ *)
(* Bounds of the model                                                  *)
(* ------------------------------------------------------------------ *)
MaxN == 2           \* dipoles of an instance of Spec
MaxSteps == 1       \* calls of step in a behaviour of Spec and of SpecTwo
EnergyMaxN == 4     \* dipoles of an instance of SpecEnergy
EnergyMaxSteps == 1 \* calls of step in a behaviour of SpecEnergy
LatticeMax == 4     \* rows and columns of a lattice of SpecLattice
TwoMaxN == 1        \* dipoles of an instance of SpecTwo
TotalMaxN == 3      \* dipoles of an instance of SpecTotal

(* ------------------------------------------------------------------ *)
(* Numbers a + b*sqrt(3)                                                *)
(* ------------------------------------------------------------------ *)
QZero == <<0, 0>>
QInt(n) == <<n, 0>>
QAdd(x, y) == <<x[1] + y[1], x[2] + y[2]>>
QSub(x, y) == <<x[1] - y[1], x[2] - y[2]>>
QNeg(x) == <<0 - x[1], 0 - x[2]>>
QMul(x, y) == <<x[1] * y[1] + 3 * x[2] * y[2], x[1] * y[2] + x[2] * y[1]>>
QScale(n, x) == <<n * x[1], n * x[2]>>

(* 2-vectors <<x, y>> of such numbers; v[1] is the program's v[0] *)
VZero == <<QZero, QZero>>
VSub(u, v) == <<QSub(u[1], v[1]), QSub(u[2], v[2])>>
VScale(n, v) == <<QScale(n, v[1]), QScale(n, v[2])>>
Dot(u, v) == QAdd(QMul(u[1], v[1]), QMul(u[2], v[2]))

Abs(n) == IF n < 0 THEN 0 - n ELSE n
Min(m, n) == IF m < n THEN m ELSE n
Max(m, n) == IF m < n THEN n ELSE m

(* np.sum of the Z[sqrt 3] values f[i], i in S *)
RECURSIVE SumOver(_, _)
SumOver(f, S) ==
    IF S = {} THEN QZero
    ELSE LET i == CHOOSE j \in S : TRUE
         IN QAdd(f[i], SumOver(f, S \ {i}))

(* ------------------------------------------------------------------ *)
(* Orientation basis                                                    *)
(* ------------------------------------------------------------------ *)
(* 2*cos(t * 30 degrees), t in 0..11 *)
TwoCos12 ==
    [t \in 0..11 |->
        CASE t = 0 -> <<2, 0>>
          [] t \in {1, 11} -> <<0, 1>>
          [] t \in {2, 10} -> <<1, 0>>
          [] t \in {3, 9} -> <<0, 0>>
          [] t \in {4, 8} -> <<-1, 0>>
          [] t \in {5, 7} -> <<0, -1>>
          [] t = 6 -> <<-2, 0>>]

(* create_ori_vec, every component doubled (the unit vectors have        *)
(* half-integer components); orientations_num divides 12 in the general  *)
(* branch, where del_theta * e is the multiple e * 12 / orientations_num *)
(* of 30 degrees and sin(x) = cos(x - 90 degrees).                       *)
create_ori_vec(orientations_num) ==
    IF orientations_num = 3
    THEN [e \in 0..2 |->
            CASE e = 0 -> <<<<0, 0>>, <<2, 0>>>>
              [] e = 1 -> <<<<0, 1>>, <<-1, 0>>>>
              [] e = 2 -> <<<<0, -1>>, <<-1, 0>>>>]
    ELSE [e \in 0..(orientations_num - 1) |->
            LET t == (e * (12 \div orientations_num)) % 12
            IN <<TwoCos12[t], TwoCos12[(t + 9) % 12]>>]

(* self.orientations = create_ori_vec(orientations_num) * dipole_strength *)
Orientations(orientations_num, dipole_strength) ==
    LET o == create_ori_vec(orientations_num)
    IN [e \in DOMAIN o |-> VScale(dipole_strength \div 2, o[e])]

(* ------------------------------------------------------------------ *)
(* Lattice generators                                                   *)
(* ------------------------------------------------------------------ *)
(* r[start:start + columns] = vals for an array r of n rows: the slice   *)
(* is clipped to the array; a right-hand side of length columns fits a   *)
(* slice of the same length, and a right-hand side of length 1 is        *)
(* broadcast to a slice of any length (also an empty one); anything else *)
(* raises ValueError.                                                    *)
SliceLen(start, columns, n) == Max(0, Min(start + columns, n) - Min(start, n))
SliceFits(start, columns, n) ==
    \/ SliceLen(start, columns, n) = columns
    \/ columns = 1

(* x- and y-coordinate of entry c of row jj *)
RowPoint(kind, a, jj, c) ==
    CASE kind = "square" -> <<QInt(c * a), QInt(a * jj)>>
      [] kind = "triangular" ->
            <<QInt(c * a + (a \div 2) * jj), <<0, (a \div 2) * jj>>>>
      [] kind = "triangular2" ->
            <<QInt(c * a + (a \div 2) * (jj % 2)), <<0, (a \div 2) * jj>>>>

(* one iteration of "for jj in range(rows)", lines 138-140 (156-158,     *)
(* 172-174): the two slice assignments to r                               *)
RowAssign(kind, a, rows, columns, jj, r) ==
    LET start == jj * rows
        n == rows * columns
    IN [i \in 0..(n - 1) |->
           IF start <= i /\ i < start + SliceLen(start, columns, n)
           THEN RowPoint(kind, a, jj, i - start)
           ELSE r[i]]

(* the loop from iteration jj on, r the array so far *)
RECURSIVE GenLoop(_, _, _, _, _, _)
GenLoop(kind, a, rows, columns, jj, r) ==
    IF jj >= rows THEN r
    ELSE GenLoop(kind, a, rows, columns, jj + 1, RowAssign(kind, a, rows, columns, jj, r))

(* some iteration of the loop assigns to a slice its right-hand side does *)
(* not fit: the generator raises ValueError                               *)
GenRaises(rows, columns) ==
    \E jj \in 0..(rows - 1) : ~SliceFits(jj * rows, columns, rows * columns)

gen_dipoles(kind, a, rows, columns) ==
    GenLoop(kind, a, rows, columns, 0, [i \in 0..(rows * columns - 1) |-> VZero])

gen_dipoles_triangular(a, rows, columns) == gen_dipoles("triangular", a, rows, columns)
gen_dipoles_triangular2(a, rows, columns) == gen_dipoles("triangular2", a, rows, columns)
gen_dipoles_square(a, rows, columns) == gen_dipoles("square", a, rows, columns)

(* the lattice selection of __init__: "t" in lattice.lower(), "2" in lattice *)
HasT(lattice) == lattice \in {"t", "t2"}
Has2(lattice) == lattice \in {"t2"}
LatticeKind(lattice) ==
    IF HasT(lattice)
    THEN IF Has2(lattice) THEN "triangular2" ELSE "triangular"
    ELSE "square"
InitLattice(a, rows, columns, lattice) ==
    IF HasT(lattice)
    THEN IF Has2(lattice)
         THEN gen_dipoles_triangular2(a, columns, rows)
         ELSE gen_dipoles_triangular(a, columns, rows)
    ELSE gen_dipoles_square(a, columns, rows)

(* ------------------------------------------------------------------ *)
(* Energy model                                                         *)
(* ------------------------------------------------------------------ *)
(* An interaction energy is a formal sum of terms c * d^(-5/2), held as   *)
(* the function d |-> c on the squared distances d with c # 0.            *)
(* x / r_sq ** 2.5 adds x at r_sq; x / r_sq ** 1.5 adds x * r_sq at r_sq; *)
(* where r_sq = 0 the program has made the divisor inf and the term is 0. *)
NoTerms == [d \in {} |-> QZero]
AddAt(f, d, c) ==
    IF d = 0 THEN f
    ELSE IF d \in DOMAIN f THEN [f EXCEPT ![d] = QAdd(@, c)]
    ELSE f @@ (d :> c)
AddOver25(f, x, r_sq) == AddAt(f, r_sq, x)
AddOver15(f, x, r_sq) == AddAt(f, r_sq, QScale(r_sq, x))
Canon(f) == [d \in {e \in DOMAIN f : f[e] # QZero} |-> f[d]]
Coef(f, d) == IF d \in DOMAIN f THEN f[d] ELSE QZero
ScaleTerms(k, f) == Canon([d \in DOMAIN f |-> QScale(k, f[d])])

(* An energy: int is the dipole-dipole part, ext the external-field part. *)
EnergySub(u, v) ==
    [int |-> Canon([d \in DOMAIN u.int \cup DOMAIN v.int |->
                       QSub(Coef(u.int, d), Coef(v.int, d))]),
     ext |-> QSub(u.ext, v.ext)]

(* 0.5 * x for a coefficient x of a sum over ordered pairs, which counts  *)
(* every pair twice                                                       *)
Half(x) == <<x[1] \div 2, x[2] \div 2>>
HalfTerms(f) == Canon([d \in DOMAIN f |-> Half(f[d])])

(* the sums of DipoleSim.calc_energy over the N x N matrices, entry q     *)
(* being the pair (q \div N, q % N): energy_int after line 69             *)
RECURSIVE PairSum(_, _, _, _)
PairSum(p, r, q, f) ==
    LET N == Cardinality(DOMAIN r)
    IN IF q >= N * N THEN f
       ELSE LET i == q \div N
                j == q % N
                dxy == VSub(r[i], r[j])
                p_dot_p == Dot(p[i], p[j])
                r_sq == Dot(dxy, dxy)[1]
                p_dot_r_sq == QMul(Dot(p[i], dxy), Dot(p[j], dxy))
            IN PairSum(p, r, q + 1,
                       AddOver25(AddOver15(f, p_dot_p, r_sq),
                                 QNeg(QScale(3, p_dot_r_sq)), r_sq))

(* np.sum(self.E * self.p) *)
RECURSIVE FieldSum(_, _, _)
FieldSum(p, E, n) == IF n = 0 THEN QZero ELSE QAdd(Dot(E, p[n - 1]), FieldSum(p, E, n - 1))

(* DipoleSim.calc_energy: p the dipole state, r the positions, E the field *)
calc_energy(p, r, E, k_units) ==
    LET energy_ext_neg == FieldSum(p, E, Cardinality(DOMAIN p))
        energy_int == PairSum(p, r, 0, NoTerms)
    IN [int |-> HalfTerms(ScaleTerms(k_units, energy_int)),
        ext |-> QNeg(energy_ext_neg)]

(* the sum of line 88-89 of DipoleSim.step over the dipoles j, j+1, ... *)
RECURSIVE MoveSum(_, _, _, _, _, _)
MoveSum(p, r, trial_dipole, dp, j, f) ==
    IF j >= Cardinality(DOMAIN r) THEN f
    ELSE LET dr == VSub(r[trial_dipole], r[j])
             r_sq_n == Dot(dr, dr)[1]
             dp_dot_p == Dot(dp, p[j])
             dp_dot_dr == Dot(dp, dr)
             p_dot_r == Dot(p[j], dr)
         IN MoveSum(p, r, trial_dipole, dp, j + 1,
                    AddOver25(f, QSub(QScale(3, QMul(dp_dot_dr, p_dot_r)),
                                      QScale(r_sq_n, dp_dot_p)), r_sq_n))

(* a faulty dU_neg that leaves out the field term sum(dp * self.E) *)
dU_neg_without_field(p, r, E, k_units, trial_dipole, trial_p) ==
    LET dp == VSub(trial_p, p[trial_dipole])
    IN [int |-> ScaleTerms(k_units, MoveSum(p, r, trial_dipole, dp, 0, NoTerms)),
        ext |-> QZero]

(* the value dU_neg of DipoleSim.step (lines 80-89) for the move of dipole *)
(* trial_dipole to trial_p                                                 *)
dU_neg(p, r, E, k_units, trial_dipole, trial_p) ==
    LET dp == VSub(trial_p, p[trial_dipole])
    IN [int |-> ScaleTerms(k_units, MoveSum(p, r, trial_dipole, dp, 0, NoTerms)),
        ext |-> Dot(dp, E)]

(* ------------------------------------------------------------------ *)
(* The energy routines of functions/numba.py                            *)
(* ------------------------------------------------------------------ *)
(* Their value is a formal sum of terms c * d^(-5/2) (int) and of terms   *)
(* c * d^(-3) (six); finite is FALSE once a term was divided by r_sq = 0. *)
NoSum == [int |-> NoTerms, six |-> NoTerms, finite |-> TRUE]
TermsAdd(f, g) ==
    Canon([d \in DOMAIN f \cup DOMAIN g |-> QAdd(Coef(f, d), Coef(g, d))])
SumAdd(u, v) ==
    [int |-> TermsAdd(u.int, v.int), six |-> TermsAdd(u.six, v.six),
     finite |-> u.finite /\ v.finite]

(* x[index + 1:] *)
Following(x, index) ==
    [m \in 0..(Cardinality(DOMAIN x) - index - 2) |-> x[index + 1 + m]]

(* calc_distances_following, for the x- and the y-axis together:          *)
(* positions[index + 1:] - positions[index]                               *)
calc_distances_following(positions, index) ==
    [m \in 0..(Cardinality(DOMAIN positions) - index - 2) |->
        VSub(positions[index + 1 + m], positions[index])]

(* the sums term1 and term2 of calc_energy_of_dipole over the entries m,  *)
(* m + 1, ... of its arrays; p_index is (px[index], py[index])            *)
RECURSIVE DipoleSum(_, _, _, _, _)
DipoleSum(p, d, p_index, m, acc) ==
    IF m >= Cardinality(DOMAIN p) THEN acc
    ELSE LET r_sq == Dot(d[m], d[m])[1]
             pi_dot_pj == Dot(p[m], p_index)
             pi_dot_dr == Dot(p[m], d[m])
             pj_dot_dr == Dot(p_index, d[m])
         IN DipoleSum(p, d, p_index, m + 1,
                IF r_sq = 0
                THEN [acc EXCEPT !.finite = FALSE]
                ELSE [acc EXCEPT
                        !.six = AddAt(@, r_sq, pi_dot_pj),
                        !.int = AddAt(@, r_sq, QNeg(QScale(3, QMul(pi_dot_dr, pj_dot_dr))))])

(* calc_energy_of_dipole(px, py, dx, dy, r_sq, index), where p_index is   *)
(* the value it reads at px[index], py[index]: term1 - 3. * term2, with   *)
(* pi_dot_pj / r_sq ** 1.5 divided by r_sq ** 1.5 again in term1          *)
calc_energy_of_dipole(p, d, p_index) ==
    LET sum == DipoleSum(p, d, p_index, 0, NoSum)
    IN [int |-> Canon(sum.int), six |-> Canon(sum.six), finite |-> sum.finite]

(* ------------------------------------------------------------------ *)
(* Sign of an energy                                                    *)
(* ------------------------------------------------------------------ *)
(* floor(sqrt(n)) by bisection *)
RECURSIVE ISqrtIn(_, _, _)
ISqrtIn(n, lo, hi) ==
    IF hi - lo <= 1 THEN lo
    ELSE LET mid == (lo + hi) \div 2
         IN IF mid * mid <= n THEN ISqrtIn(n, mid, hi) ELSE ISqrtIn(n, lo, mid)
ISqrt(n) == ISqrtIn(n, 0, 46341)

(* energies are evaluated in units of 1 / NumScale *)
NumScale == 32 * 100000

(* 1000 * sqrt(d) rounded down and rounded up *)
SqrtLo(d) == ISqrt(d * 1000000)
SqrtHi(d) == IF SqrtLo(d) * SqrtLo(d) = d * 1000000 THEN SqrtLo(d) ELSE SqrtLo(d) + 1

(* d^(-5/2) in those units lies between WeightLo[d] and WeightHi[d], for  *)
(* the squared distances d of a lattice of spacing 2                      *)
WeightLo == [d \in 4..400 |-> ((NumScale \div (d * d)) * 1000) \div SqrtHi(d)]
WeightHi ==
    [d \in 4..400 |->
        (((NumScale + d * d - 1) \div (d * d)) * 1000 + SqrtLo(d) - 1) \div SqrtLo(d)]

(* b * sqrt(3) for 0 <= b <= 10^8, to within 4 *)
Sqrt3Times(b) ==
    LET bh == b \div 10000
        bl == b % 10000
    IN bh * 17320 + ((bh * 508) \div 1000) + ((bl * 17321) \div 10000)

(* the parts A + B * sqrt(3) of energy v in units of 1 / NumScale, with   *)
(* every d^(-5/2) rounded down to WeightLo[d]                             *)
NumParts(v) ==
    QAdd(QScale(NumScale, v.ext),
         SumOver([d \in DOMAIN v.int |-> QScale(WeightLo[d], v.int[d])], DOMAIN v.int))

(* the value of energy v in units of 1 / NumScale, and a bound on the    *)
(* error of that value                                                   *)
NumValue(v) ==
    LET A == NumParts(v)[1]
        B == NumParts(v)[2]
    IN IF B >= 0 THEN A + Sqrt3Times(B) ELSE A - Sqrt3Times(0 - B)
NumError(v) ==
    LET rounding == SumOver([d \in DOMAIN v.int |->
                                QInt((WeightHi[d] - WeightLo[d])
                                     * (Abs(v.int[d][1]) + 2 * Abs(v.int[d][2])))],
                            DOMAIN v.int)[1]
    IN IF Abs(NumParts(v)[2]) <= 100000000 THEN 4 + rounding ELSE NumScale * 100

(* d^(-5/2) is sqrt(Core(d)) / Den(d), with d = Core(d) * RootPart(d)^2   *)
(* and Core(d) square-free                                                *)
RootPart(d) ==
    CHOOSE m \in 1..d : d % (m * m) = 0 /\ \A n \in (m + 1)..d : d % (n * n) # 0
Core(d) == d \div (RootPart(d) * RootPart(d))
Den(d) ==
    LET s == Core(d)
        m == RootPart(d)
    IN s * s * s * m * m * m * m * m
(* sqrt(Core(d)) is sqrt(RadicalClass(d)) * Unit(d); the square roots of  *)
(* distinct classes are linearly independent over the numbers a + b*sqrt(3) *)
RadicalClass(d) == IF Core(d) % 3 = 0 THEN Core(d) \div 3 ELSE Core(d)
Unit(d) == IF Core(d) % 3 = 0 THEN <<0, 1>> ELSE <<1, 0>>

RECURSIVE GCD(_, _)
GCD(m, n) == IF n = 0 THEN m ELSE GCD(n, m % n)
RECURSIVE LCMOver(_)
LCMOver(S) ==
    IF S = {} THEN 1
    ELSE LET d == CHOOSE e \in S : TRUE
             l == LCMOver(S \ {d})
         IN (l \div GCD(l, Den(d))) * Den(d)

(* the part of energy v that is a multiple of sqrt(t), times the least    *)
(* common denominator of its terms; the field part belongs to t = 1       *)
ClassSum(v, t) ==
    LET D == {d \in DOMAIN v.int : RadicalClass(d) = t}
        L == LCMOver(D)
        w == SumOver([d \in D |-> QScale(L \div Den(d), QMul(v.int[d], Unit(d)))], D)
    IN IF t = 1 THEN QAdd(QScale(L, v.ext), w) ELSE w

(* energy v is the real number 0 *)
IsZero(v) ==
    \A t \in {1} \cup {RadicalClass(d) : d \in DOMAIN v.int} : ClassSum(v, t) = QZero

(* -1, 0 or 1 *)
Sign(v) == IF IsZero(v) THEN 0 ELSE IF NumValue(v) > 0 THEN 1 ELSE -1

(* the least common multiple of the cubes of the numbers of S *)
RECURSIVE LCMCubes(_)
LCMCubes(S) ==
    IF S = {} THEN 1
    ELSE LET d == CHOOSE e \in S : TRUE
             l == LCMCubes(S \ {d})
         IN (l \div GCD(l, d * d * d)) * (d * d * d)

(* the sum u of terms c * d^(-5/2) (int) and c * d^(-3) (six) is the real *)
(* number 0: the terms in d^(-3) are rational multiples of 1 and belong   *)
(* to the class of sqrt(1)                                                *)
SumIsZero(u) ==
    LET v == [int |-> u.int, ext |-> QZero]
        L == LCMOver({d \in DOMAIN u.int : RadicalClass(d) = 1})
        L6 == LCMCubes(DOMAIN u.six)
        w6 == SumOver([d \in DOMAIN u.six |-> QScale(L6 \div (d * d * d), u.six[d])],
                      DOMAIN u.six)
    IN /\ \A t \in {RadicalClass(d) : d \in DOMAIN u.int} \ {1} : ClassSum(v, t) = QZero
       /\ QAdd(QScale(L6, ClassSum(v, 1)), QScale(L, w6)) = QZero

(* ------------------------------------------------------------------ *)
(* Inputs                                                               *)
(* ------------------------------------------------------------------ *)
Insts == {1, 2}

(* lattice spacing a (nm) and dipole strength: even, so that 0.5 * a and  *)
(* the components of the orientations are integers                        *)
Spacings == {2}
Strengths == {2}
(* eps_rel is taken such that k_units = 0.25 / (pi * eps0 * eps_rel) is 1 *)
KUnits == {1}
OrientationNums == {3, 4}
Lattices == {"s", "t", "t2"}
(* a temperature: its value in K, and whether it is a numpy number (as    *)
(* the elements of np.arange in test_energy) or a Python number           *)
Temperatures == [val : {-10, 0, 10}, numpy : BOOLEAN]
WarmTemperatures == {t \in Temperatures : t.val > 0 /\ ~t.numpy}
(* the field vectors (x, y) of change_electric_field *)
Fields == {<<0, 0>>, <<1, 1>>}
RunCounts == {-1, 0, 1}
(* the rows of a saved dipole state the caller passes as p0 *)
SeedRows == {<<QInt(0), QInt(2)>>, <<QInt(2), QInt(0)>>}
(* the number u in [0, 1) drawn by random.random(), in the order of the   *)
(* levels of ExpLevel: 0 is the least draw 0.0, 2 a draw above exp(x) for *)
(* every x < 0 the model produces                                         *)
Draws == {0, 2}

(* the values a read past the end of an array yields when the build does *)
(* not check bounds (numba's default), and the IndexError when it does    *)
StrayReads ==
    {[raises |-> TRUE, value |-> VZero]}
        \cup {[raises |-> FALSE, value |-> v] : v \in {VZero, <<QInt(2), QInt(0)>>}}

Shapes(maxN) == {s \in (1..maxN) \X (1..maxN) : s[1] * s[2] <= maxN}

(* ------------------------------------------------------------------ *)
(* State                                                                *)
(* ------------------------------------------------------------------ *)
VARIABLES
    obj,          \* obj[i]: the fields of DipoleSim instance i
    arr,          \* the dipole-state arrays: arr[0] is the array the caller
                  \* holds (p0), arr[i] the array instance i allocated
    globalRandom, \* number of draws taken from the process-wide generator
                  \* of module random
    stepf,        \* stepf[i]: position in and local variables of step
    runf,         \* runf[i]: the frame of run: full_steps, iterations left
    raised,       \* raised[i]: the exception the latest call on i ended with
                  \* ("None" while it executes and when it returned)
    steps,        \* number of calls of step so far
    gen,          \* a call of a lattice generator: arguments, jj, r
    tot           \* a call of total_internal_energy: instance, jj, energy

vars == <<obj, arr, globalRandom, stepf, runf, raised, steps, gen, tot>>

NoArray == [j \in {} |-> VZero]
NoEnergy == [int |-> [d \in {} |-> QZero], ext |-> QZero]
NoObj ==
    [live |-> FALSE, k_units |-> 0, beta |-> [kind |-> "fin", recip |-> 0],
     E |-> VZero, orientations_num |-> 0, orientations |-> NoArray,
     r |-> NoArray, columns |-> 0, N |-> 0, p |-> 0, accepted |-> 0, rng |-> 0]
NoRun == [active |-> FALSE, full_steps |-> 0, left |-> 0]
NoStep == [pc |-> "none", trial_dipole |-> 0, trial |-> 0, dU_neg |-> NoEnergy,
           u |-> 0]
NoGen == [pc |-> "none", lattice |-> "s", a |-> 0, urows |-> 0, ucolumns |-> 0,
          kind |-> "square", rows |-> 0, columns |-> 0, jj |-> 0, r |-> NoArray]

NoTotal == [pc |-> "none", inst |-> 0, jj |-> 0, energy |-> NoSum]

(* self.p of instance i *)
P(i) == arr[obj[i].p]
(* the local trial_p of step *)
TrialP(i) == obj[i].orientations[stepf[i].trial]
(* no call is executing (the program is single-threaded: a call on an     *)
(* instance starts when the call before it, on any instance, has returned) *)
Idle(i) == \A j \in Insts : stepf[j].pc = "none" /\ ~runf[j].active

(* ------------------------------------------------------------------ *)
(* Inverse temperature and the acceptance test                          *)
(* ------------------------------------------------------------------ *)
(* 1. / (DipoleSim.boltzmann * temperature) raises ZeroDivisionError for  *)
(* a Python 0 and is inf for a numpy 0; otherwise beta is                 *)
(* 1 / (boltzmann * recip)                                                *)
InverseRaises(temperature) == temperature.val = 0 /\ ~temperature.numpy
Inverse(temperature) ==
    [kind |-> IF temperature.val = 0 THEN "inf" ELSE "fin", recip |-> temperature.val]

(* self.beta * dU_neg, for sign s of dU_neg *)
BetaTimes(beta, s) ==
    IF beta.kind = "inf"
    THEN CASE s > 0 -> "+inf" [] s < 0 -> "-inf" [] OTHER -> "nan"
    ELSE LET t == IF beta.recip > 0 THEN s ELSE 0 - s
         IN CASE t > 0 -> "pos" [] t < 0 -> "neg" [] OTHER -> "zero"

(* np.exp(x) on the scale of Draws: 0 for exp(-inf) = 0, 1 for a value    *)
(* strictly between 0 and 1, 3 for a value >= 1; -1 stands for nan        *)
ExpLevel(x) ==
    CASE x = "nan" -> -1
      [] x = "-inf" -> 0
      [] x = "neg" -> 1
      [] OTHER -> 3

(* random.random() < np.exp(self.beta * dU_neg); a comparison with nan is False *)
accept_energy_change(u, beta, dU) ==
    LET e == ExpLevel(BetaTimes(beta, Sign(dU)))
    IN e # -1 /\ u < e

(* ------------------------------------------------------------------ *)
(* Operations                                                           *)
(* ------------------------------------------------------------------ *)
(* gen_dipole_orientations: self.orientations[ran_choices] *)
gen_dipole_orientations(orientations, ran_choices) ==
    [j \in DOMAIN ran_choices |-> orientations[ran_choices[j]]]

(* DipoleSim.__init__.  seeded: p0 is the array the caller holds, which   *)
(* the caller loads (every row `row`) if it holds none yet; otherwise p0  *)
(* is None and ran_choices are the indices drawn from self.rng.           *)
Construct(i, a, rows, columns, temp0, dipole_strength, orientations_num, k_units, lattice, seeded, row, ran_choices) ==
    LET N == columns * rows
        orientations == Orientations(orientations_num, dipole_strength)
        p0 == IF DOMAIN arr[0] = {} THEN [j \in 0..(N - 1) |-> row] ELSE arr[0]
    IN /\ ~obj[i].live
       /\ Idle(i)
       /\ seeded => DOMAIN p0 = 0..(N - 1)
       /\ IF InverseRaises(temp0)
          THEN /\ raised' = [raised EXCEPT ![i] = "ZeroDivisionError"]
               /\ UNCHANGED <<obj, arr>>
          ELSE IF GenRaises(columns, rows)
          THEN /\ raised' = [raised EXCEPT ![i] = "ValueError"]
               /\ UNCHANGED <<obj, arr>>
          ELSE /\ raised' = [raised EXCEPT ![i] = "None"]
               /\ obj' = [obj EXCEPT ![i] =
                    [live |-> TRUE, k_units |-> k_units, beta |-> Inverse(temp0),
                     E |-> VZero, orientations_num |-> orientations_num,
                     orientations |-> orientations,
                     r |-> InitLattice(a, rows, columns, lattice),
                     columns |-> columns, N |-> N,
                     p |-> IF seeded THEN 0 ELSE i, accepted |-> 0,
                     rng |-> IF seeded THEN 0 ELSE N]]
               /\ arr' = IF seeded
                         THEN [arr EXCEPT ![0] = p0]
                         ELSE [arr EXCEPT ![i] =
                                  gen_dipole_orientations(orientations, ran_choices)]
       /\ UNCHANGED <<globalRandom, stepf, runf, steps, gen, tot>>

(* a faulty assignment self.p[:] = trial_p, which overwrites every row *)
SetRowAll(p, trial_dipole, trial_p) == [j \in DOMAIN p |-> trial_p]

(* self.p[trial_dipole] = trial_p *)
SetRow(p, trial_dipole, trial_p) == [p EXCEPT ![trial_dipole] = trial_p]

(* the test of line 79: the step goes on to evaluate the move *)
Differs(current, trial_p) == ~(current[1] = trial_p[1])

(* DipoleSim.step, lines 77-78: the two draws from self.rng.  step is     *)
(* called directly, or by run as the next iteration of its loop.          *)
StepDraw(i, maxSteps, trial_dipole, trial) ==
    /\ obj[i].live
    /\ steps < maxSteps
    /\ stepf[i].pc = "none"
    /\ IF runf[i].active THEN runf[i].left > 0 ELSE Idle(i)
    /\ trial_dipole \in 0..(obj[i].N - 1)
    /\ trial \in 0..(obj[i].orientations_num - 1)
    /\ steps' = steps + 1
    /\ obj' = [obj EXCEPT ![i].rng = @ + 2]
    /\ stepf' = [stepf EXCEPT ![i] =
                    [NoStep EXCEPT !.pc = "test", !.trial_dipole = trial_dipole,
                                   !.trial = trial]]
    /\ runf' = IF runf[i].active THEN [runf EXCEPT ![i].left = @ - 1] ELSE runf
    /\ raised' = [raised EXCEPT ![i] = "None"]
    /\ UNCHANGED <<arr, globalRandom, gen, tot>>

(* step, line 79 false: nothing more is done and step returns *)
StepSkip(i) ==
    /\ stepf[i].pc = "test"
    /\ ~Differs(P(i)[stepf[i].trial_dipole], TrialP(i))
    /\ stepf' = [stepf EXCEPT ![i] = NoStep]
    /\ UNCHANGED <<obj, arr, globalRandom, runf, raised, steps, gen, tot>>

(* step, lines 80-91: dU_neg is computed and u drawn from module random *)
StepEvaluate(i, u) ==
    /\ stepf[i].pc = "test"
    /\ Differs(P(i)[stepf[i].trial_dipole], TrialP(i))
    /\ stepf' = [stepf EXCEPT ![i].pc = "decide",
                              ![i].dU_neg = dU_neg(P(i), obj[i].r, obj[i].E, obj[i].k_units,
                                                   stepf[i].trial_dipole, TrialP(i)),
                              ![i].u = u]
    /\ globalRandom' = globalRandom + 1
    /\ UNCHANGED <<obj, arr, runf, raised, steps, gen, tot>>

(* step, lines 91-93: the acceptance test and the move *)
StepDecide(i) ==
    /\ stepf[i].pc = "decide"
    /\ IF accept_energy_change(stepf[i].u, obj[i].beta, stepf[i].dU_neg)
       THEN /\ obj' = [obj EXCEPT ![i].accepted = @ + 1]
            /\ arr' = [arr EXCEPT ![obj[i].p] = SetRow(@, stepf[i].trial_dipole, TrialP(i))]
       ELSE UNCHANGED <<obj, arr>>
    /\ stepf' = [stepf EXCEPT ![i] = NoStep]
    /\ UNCHANGED <<globalRandom, runf, raised, steps, gen, tot>>

(* DipoleSim.change_temperature *)
ChangeTemperature(i, temperature) ==
    /\ obj[i].live
    /\ Idle(i)
    /\ IF InverseRaises(temperature)
       THEN /\ raised' = [raised EXCEPT ![i] = "ZeroDivisionError"]
            /\ UNCHANGED obj
       ELSE /\ raised' = [raised EXCEPT ![i] = "None"]
            /\ obj' = [obj EXCEPT ![i].beta = Inverse(temperature)]
    /\ UNCHANGED <<arr, globalRandom, stepf, runf, steps, gen, tot>>

(* DipoleSim.change_electric_field *)
ChangeElectricField(i, x, y) ==
    /\ obj[i].live
    /\ Idle(i)
    /\ obj' = [obj EXCEPT ![i].E = <<QInt(x), QInt(y)>>]
    /\ raised' = [raised EXCEPT ![i] = "None"]
    /\ UNCHANGED <<arr, globalRandom, stepf, runf, steps, gen, tot>>

(* DipoleSim.run: entry, with range(self.N * full_steps) evaluated *)
Run(i, full_steps) ==
    /\ obj[i].live
    /\ Idle(i)
    /\ runf' = [runf EXCEPT ![i] =
                  [active |-> TRUE, full_steps |-> full_steps,
                   left |-> Max(0, obj[i].N * full_steps)]]
    /\ raised' = [raised EXCEPT ![i] = "None"]
    /\ UNCHANGED <<obj, arr, globalRandom, stepf, steps, gen, tot>>

(* DipoleSim.run: the loop is exhausted and run returns *)
RunReturn(i) ==
    /\ runf[i].active
    /\ stepf[i].pc = "none"
    /\ runf[i].left = 0
    /\ runf' = [runf EXCEPT ![i] = NoRun]
    /\ UNCHANGED <<obj, arr, globalRandom, stepf, raised, steps, gen, tot>>

(* ------------------------------------------------------------------ *)
(* A lattice generator, iteration by iteration                          *)
(* ------------------------------------------------------------------ *)
(* lines 38-44 of __init__: the generator chosen by `lattice` is called   *)
(* with (a, columns, rows) for its parameters (a, rows, columns)          *)
GenCall(a, rows, columns, lattice) ==
    /\ gen.pc # "loop"
    /\ gen' = [pc |-> "loop", lattice |-> lattice, a |-> a, urows |-> rows,
               ucolumns |-> columns, kind |-> LatticeKind(lattice),
               rows |-> columns, columns |-> rows, jj |-> 0,
               r |-> [j \in 0..(rows * columns - 1) |-> VZero]]
    /\ UNCHANGED <<obj, arr, globalRandom, stepf, runf, raised, steps, tot>>

(* one iteration of the loop of the generator, or the ValueError of its   *)
(* slice assignment                                                       *)
GenRow ==
    /\ gen.pc = "loop"
    /\ gen.jj < gen.rows
    /\ IF SliceFits(gen.jj * gen.rows, gen.columns, gen.rows * gen.columns)
       THEN gen' = [gen EXCEPT !.jj = @ + 1,
                               !.r = RowAssign(gen.kind, gen.a, gen.rows, gen.columns,
                                               gen.jj, @)]
       ELSE gen' = [gen EXCEPT !.pc = "raised"]
    /\ UNCHANGED <<obj, arr, globalRandom, stepf, runf, raised, steps, tot>>

(* the generator returns r *)
GenReturn ==
    /\ gen.pc = "loop"
    /\ gen.jj >= gen.rows
    /\ gen' = [gen EXCEPT !.pc = "done"]
    /\ UNCHANGED <<obj, arr, globalRandom, stepf, runf, raised, steps, tot>>

(* ------------------------------------------------------------------ *)
(* total_internal_energy, iteration by iteration                        *)
(* ------------------------------------------------------------------ *)
(* total_internal_energy(px, py, rx, ry, rz, N_total) is called with the  *)
(* columns of self.p and self.r of instance i, rz = 0 and N_total = N     *)
TotalCall(i) ==
    /\ obj[i].live
    /\ Idle(i)
    /\ tot.pc # "loop"
    /\ tot' = [pc |-> "loop", inst |-> i, jj |-> 0, energy |-> NoSum]
    /\ UNCHANGED <<obj, arr, globalRandom, stepf, runf, raised, steps, gen>>

(* one iteration of its loop.  calc_energy_of_dipole is handed the slices *)
(* px[jj + 1:], py[jj + 1:] and index = jj, so that px[index] is element  *)
(* jj of the slice; where the slice has no element jj, the read yields    *)
(* `stray`                                                                *)
TotalRow(stray) ==
    /\ tot.pc = "loop"
    /\ tot.jj < obj[tot.inst].N - 1
    /\ LET jj == tot.jj
           p == Following(P(tot.inst), jj)
           d == calc_distances_following(obj[tot.inst].r, jj)
           in_bounds == jj \in DOMAIN p
       IN IF ~in_bounds /\ stray.raises
          THEN tot' = [tot EXCEPT !.pc = "raised"]
          ELSE tot' = [tot EXCEPT
                          !.jj = @ + 1,
                          !.energy = SumAdd(@, calc_energy_of_dipole(p, d,
                                         IF in_bounds THEN p[jj] ELSE stray.value))]
    /\ UNCHANGED <<obj, arr, globalRandom, stepf, runf, raised, steps, gen>>

(* total_internal_energy returns energy *)
TotalReturn ==
    /\ tot.pc = "loop"
    /\ tot.jj >= obj[tot.inst].N - 1
    /\ tot' = [tot EXCEPT !.pc = "done"]
    /\ UNCHANGED <<obj, arr, globalRandom, stepf, runf, raised, steps, gen>>

(* ------------------------------------------------------------------ *)
(* Specifications                                                       *)
(* ------------------------------------------------------------------ *)
Init ==
    /\ obj = [i \in Insts |-> NoObj]
    /\ arr = [j \in {0} \cup Insts |-> NoArray]
    /\ globalRandom = 0
    /\ stepf = [i \in Insts |-> NoStep]
    /\ runf = [i \in Insts |-> NoRun]
    /\ raised = [i \in Insts |-> "None"]
    /\ steps = 0
    /\ gen = NoGen
    /\ tot = NoTotal

(* the calls on the instances I: shapes the rows and columns, nums the    *)
(* orientation counts, temps the temperatures and runs the counts of full *)
(* steps they take                                                        *)
Calls(I, shapes, nums, temps, runs, maxSteps) ==
    \E i \in I :
        \/ /\ ~obj[i].live
           /\ \E a \in Spacings, shape \in shapes, temp0 \in temps,
              dipole_strength \in Strengths, orientations_num \in nums,
              k_units \in KUnits, lattice \in Lattices, seeded \in BOOLEAN :
              \E row \in IF seeded THEN SeedRows ELSE {VZero},
                 ran_choices \in IF seeded THEN {NoArray}
                                 ELSE [0..(shape[1] * shape[2] - 1) ->
                                          0..(orientations_num - 1)] :
                 Construct(i, a, shape[1], shape[2], temp0, dipole_strength,
                           orientations_num, k_units, lattice, seeded, row, ran_choices)
        \/ \E trial_dipole \in 0..(obj[i].N - 1),
              trial \in 0..(obj[i].orientations_num - 1) :
              StepDraw(i, maxSteps, trial_dipole, trial)
        \/ StepSkip(i)
        \/ \E u \in Draws : StepEvaluate(i, u)
        \/ StepDecide(i)
        \/ \E temperature \in temps : ChangeTemperature(i, temperature)
        \/ \E field \in Fields : ChangeElectricField(i, field[1], field[2])
        \/ \E full_steps \in runs : Run(i, full_steps)
        \/ RunReturn(i)

Next == Calls({1}, Shapes(MaxN), OrientationNums, Temperatures, RunCounts, MaxSteps)
Spec == Init /\ [][Next]_vars

(* one instance with up to EnergyMaxN dipoles, whose steps are called     *)
(* directly                                                               *)
NextEnergy ==
    Calls({1}, Shapes(EnergyMaxN), OrientationNums, WarmTemperatures, {0}, EnergyMaxSteps)
SpecEnergy == Init /\ [][NextEnergy]_vars

(* the lattice generators alone *)
NextLattice ==
    \/ \E a \in Spacings, rows \in 1..LatticeMax, columns \in 1..LatticeMax,
          lattice \in Lattices : GenCall(a, rows, columns, lattice)
    \/ GenRow
    \/ GenReturn
SpecLattice == Init /\ [][NextLattice]_vars

(* two instances *)
NextTwo == Calls(Insts, Shapes(TwoMaxN), {3}, WarmTemperatures, {0}, MaxSteps)
SpecTwo == Init /\ [][NextTwo]_vars

(* one instance with up to TotalMaxN dipoles, in zero field, whose full   *)
(* energy total_internal_energy computes                                  *)
NextTotal ==
    \/ /\ ~obj[1].live
       /\ \E a \in Spacings, shape \in Shapes(TotalMaxN), temp0 \in WarmTemperatures,
             dipole_strength \in Strengths, orientations_num \in OrientationNums,
             k_units \in KUnits, lattice \in Lattices, seeded \in BOOLEAN :
             \E row \in IF seeded THEN SeedRows ELSE {VZero},
                ran_choices \in IF seeded THEN {NoArray}
                                ELSE [0..(shape[1] * shape[2] - 1) ->
                                         0..(orientations_num - 1)] :
                Construct(1, a, shape[1], shape[2], temp0, dipole_strength,
                          orientations_num, k_units, lattice, seeded, row, ran_choices)
    \/ TotalCall(1)
    \/ \E stray \in StrayReads : TotalRow(stray)
    \/ TotalReturn
SpecTotal == Init /\ [][NextTotal]_vars

(* ------------------------------------------------------------------ *)
(* Soundness of Sign                                                    *)
(* ------------------------------------------------------------------ *)
(* the sign of every energy decrease a step computes is decided by the    *)
(* integer approximation: the decrease is zero term by term, or its       *)
(* approximation exceeds the error bound                                  *)
SignDecided ==
    \A i \in Insts :
        stepf[i].pc = "decide" =>
            \/ IsZero(stepf[i].dU_neg)
            \/ Abs(NumValue(stepf[i].dU_neg)) > NumError(stepf[i].dU_neg)

(* ------------------------------------------------------------------ *)
(* Properties                                                           *)
(* ------------------------------------------------------------------ *)
(* C1: the energy decrease step computes for a trial move is the full     *)
(* energy (interaction and field part) of the state before the move minus *)
(* the full energy of the state with the one dipole replaced by the       *)
(* candidate.                                                             *)
EnergyDecreaseIsDifference ==
    \A i \in Insts :
        stepf[i].pc = "decide" =>
            stepf[i].dU_neg =
                EnergySub(calc_energy(P(i), obj[i].r, obj[i].E, obj[i].k_units),
                          calc_energy([P(i) EXCEPT ![stepf[i].trial_dipole] = TrialP(i)],
                                      obj[i].r, obj[i].E, obj[i].k_units))

(* a trial move on a two-dimensional lattice in a field: the decrease has *)
(* a field part and interaction terms at two distances or more, and the   *)
(* energy goes down                                                       *)
EnergyDecreaseComputed ==
    \E i \in Insts :
        /\ stepf[i].pc = "decide"
        /\ stepf[i].dU_neg.ext # QZero
        /\ Cardinality(DOMAIN stepf[i].dU_neg.int) >= 2
        /\ Sign(stepf[i].dU_neg) > 0

(* C2: a trial move whose energy decrease is >= 0 is accepted, whatever   *)
(* number was drawn: the acceptance counter goes up by one and the        *)
(* candidate is written to the dipole.                                    *)
FavourableMoveAccepted ==
    [][\A i \in Insts :
         (stepf[i].pc = "decide" /\ stepf'[i].pc = "none"
          /\ Sign(stepf[i].dU_neg) >= 0) =>
             /\ obj'[i].accepted = obj[i].accepted + 1
             /\ P(i)' = [P(i) EXCEPT ![stepf[i].trial_dipole] = TrialP(i)]]_vars

(* C3: every transition leaves the dipole state and the acceptance        *)
(* counter of an instance as they are, or is the acceptance of a step:    *)
(* the counter goes up by exactly one, the selected dipole takes the      *)
(* candidate and every other entry is unchanged.  So the counter never    *)
(* decreases and nothing resets it.                                       *)
StepAcceptsOrRejects ==
    [][\A i \in Insts :
         (obj[i].live /\ obj'[i].live) =>
             \/ /\ obj'[i].accepted = obj[i].accepted
                /\ P(i)' = P(i)
             \/ /\ stepf[i].pc = "decide"
                /\ stepf'[i].pc = "none"
                /\ obj'[i].accepted = obj[i].accepted + 1
                /\ P(i)' = [P(i) EXCEPT ![stepf[i].trial_dipole] = TrialP(i)]
                /\ P(i)' # P(i)]_vars

(* a step was accepted on a seeded lattice of two dipoles, whose rows were *)
(* equal before it: one dipole has taken the candidate, the other has not *)
OneStepAccepted ==
    \E i \in Insts :
        /\ obj[i].live
        /\ obj[i].N = 2
        /\ obj[i].p = 0
        /\ obj[i].accepted = 1
        /\ stepf[i].pc = "none"
        /\ P(i)[0] # P(i)[1]

(* C4: a step is cut short as a no-op exactly when the candidate          *)
(* orientation equals the current orientation of the selected dipole      *)
(* (for every orientation count).                                         *)
NoOpExactlyWhenEqual ==
    [][\A i \in Insts :
         (stepf[i].pc = "test" /\ stepf'[i].pc # "test") =>
             (stepf'[i].pc = "none" <=> P(i)[stepf[i].trial_dipole] = TrialP(i))]_vars

(* C5: a lattice generator returns rows * columns pairwise distinct       *)
(* positions for every rows, columns >= 1 and every lattice kind, and the *)
(* square lattice is the rows x columns grid of spacing a.                *)
LatticeDistinctPositions ==
    gen.pc \in {"done", "raised"} =>
        /\ gen.pc = "done"
        /\ DOMAIN gen.r = 0..(gen.urows * gen.ucolumns - 1)
        /\ \A i, j \in DOMAIN gen.r : i # j => gen.r[i] # gen.r[j]
        /\ gen.kind = "square" =>
               {gen.r[i] : i \in DOMAIN gen.r} =
                   {<<QInt(c * gen.a), QInt(rr * gen.a)>> :
                        c \in 0..(gen.ucolumns - 1), rr \in 0..(gen.urows - 1)}

(* C6: the inverse temperature of an instance is never infinite, NaN or   *)
(* negative: it is 1 / (boltzmann * T) for a temperature T > 0.           *)
BetaPositiveFinite ==
    \A i \in Insts :
        obj[i].live => obj[i].beta.kind = "fin" /\ obj[i].beta.recip > 0

(* C7: run(0) performs no step and changes nothing, and run with a        *)
(* negative count does not return normally.                               *)
RunCountChecked ==
    [][\A i \in Insts :
         runf[i].active =>
             /\ runf[i].full_steps = 0 =>
                    /\ stepf'[i] = stepf[i]
                    /\ obj'[i] = obj[i]
                    /\ P(i)' = P(i)
             /\ (runf[i].full_steps < 0 /\ ~runf'[i].active) =>
                    raised'[i] # "None"]_vars

(* C8: a step of an instance draws nothing from the process-wide          *)
(* generator and nothing from the generator of another instance.          *)
StepDrawsFromOwnGenerator ==
    [][\A i \in Insts :
         stepf'[i] # stepf[i] =>
             /\ globalRandom' = globalRandom
             /\ \A j \in Insts \ {i} : obj'[j].rng = obj[j].rng]_vars

(* C9: every entry of the dipole state of an instance is one of the       *)
(* vectors of its orientation set, and the set is never modified.         *)
StateInOrientationSet ==
    [][\A i \in Insts :
         obj'[i].live =>
             /\ \A k \in DOMAIN P(i)' :
                    \E e \in DOMAIN obj'[i].orientations :
                        P(i)'[k] = obj'[i].orientations[e]
             /\ obj[i].live => obj'[i].orientations = obj[i].orientations]_vars

(* C10: the acceptance of a step on one instance changes neither the      *)
(* dipole state of another instance nor the array of the caller.          *)
NoSharedDipoleState ==
    [][\A i \in Insts :
         (stepf[i].pc = "decide" /\ stepf'[i].pc = "none") =>
             /\ arr'[0] = arr[0]
             /\ \A j \in Insts \ {i} : obj[j].live => P(j)' = P(j)]_vars

(* the sum over the unordered pairs i < j of (p_i.p_j) / r_ij^3           *)
(* - 3 (p_i.r_ij)(p_j.r_ij) / r_ij^5, entry q being the pair              *)
(* (q \div N, q % N)                                                      *)
RECURSIVE UnorderedPairSum(_, _, _, _)
UnorderedPairSum(p, r, q, f) ==
    LET N == Cardinality(DOMAIN r)
    IN IF q >= N * N THEN f
       ELSE LET i == q \div N
                j == q % N
                r_ij == VSub(r[i], r[j])
                d == Dot(r_ij, r_ij)[1]
            IN UnorderedPairSum(p, r, q + 1,
                   IF i < j
                   THEN AddOver25(AddOver15(f, Dot(p[i], p[j]), d),
                                  QNeg(QScale(3, QMul(Dot(p[i], r_ij), Dot(p[j], r_ij)))), d)
                   ELSE f)

(* the positions r are pairwise distinct *)
DistinctPositions(r) == \A i, j \in DOMAIN r : i # j => r[i] # r[j]

(* DipoleSim.calc_energy() of an instance in zero field is k_units times  *)
(* the sum over the unordered pairs                                       *)
CalcEnergyIsPairSum ==
    tot.pc \in {"done", "raised"} /\ obj[tot.inst].E = VZero =>
        calc_energy(P(tot.inst), obj[tot.inst].r, obj[tot.inst].E, obj[tot.inst].k_units)
            = [int |-> Canon(ScaleTerms(obj[tot.inst].k_units,
                                 UnorderedPairSum(P(tot.inst), obj[tot.inst].r, 0, NoTerms))),
               ext |-> QZero]

(* C11: for an instance in zero field whose dipoles lie in one plane at   *)
(* distinct positions, DipoleSim.calc_energy() and k_units times          *)
(* total_internal_energy(px, py, rx, ry, rz, N) both equal k_units times  *)
(* the sum over the unordered pairs i < j of (p_i.p_j) / r_ij^3           *)
(* - 3 (p_i.r_ij)(p_j.r_ij) / r_ij^5: a call of total_internal_energy     *)
(* returns, and returns that number.                                      *)
FullEnergiesArePairSum ==
    /\ tot.pc \in {"done", "raised"}
    /\ obj[tot.inst].E = VZero
    /\ DistinctPositions(obj[tot.inst].r)
    => LET k_units == obj[tot.inst].k_units
           pair_sum == Canon(ScaleTerms(k_units,
                           UnorderedPairSum(P(tot.inst), obj[tot.inst].r, 0, NoTerms)))
           total == [int |-> ScaleTerms(k_units, tot.energy.int), ext |-> QZero]
       IN /\ calc_energy(P(tot.inst), obj[tot.inst].r, obj[tot.inst].E, k_units)
                = [int |-> pair_sum, ext |-> QZero]
          /\ tot.pc = "done"
          /\ tot.energy.finite
          /\ SumIsZero([int |-> EnergySub(total, [int |-> pair_sum, ext |-> QZero]).int,
                        six |-> ScaleTerms(k_units, tot.energy.six)])

====
